---- MODULE Spec2Model ----
(***************************************************************************)
(* Model of the passwordle backend (src/src/game.rs, src/src/error.rs).    *)
(*                                                                         *)
(* The three handlers create_game, get_game_info and make_guess run        *)
(* concurrently, one per request, and share nothing but the Redis store.   *)
(* Each handler sends its commands as redis::pipe() pipelines that are NOT *)
(* put in atomic (MULTI/EXEC) mode, so the server executes the commands of *)
(* a pipeline one by one and commands of other connections may run in      *)
(* between.  The model therefore has one step per Redis command.           *)
(***************************************************************************)
EXTENDS Integers, Sequences, FiniteSets, TLC

(***************************************************************************)
(* Program constants (game.rs:12-15).                                      *)
(***************************************************************************)
MAX_GUESS == 64
PASSWORD_LENGTH == 8

(***************************************************************************)
(* Bounds of the model.                                                    *)
(***************************************************************************)
\* INCR commands one run may issue (a counter nobody deletes grows without
\* bound, and so does the number of requests)
MaxIncr == 3
\* how far below the ceiling the counter of a session found in the store at
\* the start of a run may be
Headroom == 1
\* INCR commands a sequential run issues beyond the ceiling
ExtraIncr == 2
\* INCR commands one run on two identifiers may issue
PairIncr == 2
\* longest digest a run that only scores a guess draws
MaxLen == 4

\* request slots (requests in flight at the same time)
Procs == 1..2
\* session identifiers (uuids) a run is about: one, or two
OneId == {1}
TwoIds == {1, 2}

(***************************************************************************)
(* Option<T>: None is <<>>, Some(x) is <<x>>.                              *)
(***************************************************************************)
None == << >>
Some(x) == << x >>
IsSome(o) == Len(o) = 1
Unwrap(o) == o[1]

(***************************************************************************)
(* Values.  Strings are sequences of bytes where the bytes matter          *)
(* (digests), TLA+ strings where only length and identity matter.          *)
(***************************************************************************)
\* salts the random source can draw (8 alphanumeric characters)
Salts == {"Qx7pLm2Z"}
\* passwords the random source can draw (8 alphanumeric characters)
Passwords == {"hunter22", "letmein1"}
\* salts of the sessions found in the store at the start of a run on two
\* identifiers: two draws, so two salts
OldSalts == <<{"Qx7pLm2Z"}, {"b0Rk9TeW"}>>
\* guess texts a client can send: right length (8) and wrong length
Guesses == {"hunter22", "short"}

\* base64(md5(text ++ salt)): a fixed function of text and salt, equal
\* inputs give equal digests, other inputs other digests, digests all of
\* one length.  The digests are sequences of bytes of the base64 alphabet
\* (never 0).
Md5Base64(text, salt) ==
    IF salt = "Qx7pLm2Z"
    THEN IF text = "hunter22" THEN <<65, 66, 67, 67, 68>>
         ELSE IF text = "letmein1" THEN <<65, 67, 67, 66, 88>>
         ELSE <<88, 88, 65, 66, 67>>
    ELSE IF text = "hunter22" THEN <<67, 65, 68, 66, 66>>
         ELSE IF text = "letmein1" THEN <<66, 88, 65, 65, 67>>
         ELSE <<68, 67, 88, 88, 65>>

(***************************************************************************)
(* Match (game.rs:140-149) and check_guess (game.rs:151-190).              *)
(***************************************************************************)
Exact == "Exact"
Close == "Close"
Wrong == "Wrong"

\* an exact match consuming every occurrence of its character
RECURSIVE ExactPass_ConsumeAll(_, _, _, _)
ExactPass_ConsumeAll(i, input, solution, diff) ==
    IF i > Len(input) THEN <<solution, diff>>
    ELSE IF solution[i] = input[i]
         THEN ExactPass_ConsumeAll(i + 1, input,
                        [j \in 1..Len(solution) |->
                            IF solution[j] = input[i] THEN 0 ELSE solution[j]],
                        [diff EXCEPT ![i] = Exact])
         ELSE ExactPass_ConsumeAll(i + 1, input, solution, diff)

\* first exact-match loop (game.rs:163-168): state is <<solution, diff>>
RECURSIVE ExactPass(_, _, _, _)
ExactPass(i, input, solution, diff) ==
    IF i > Len(input) THEN <<solution, diff>>
    ELSE IF solution[i] = input[i]
         THEN ExactPass(i + 1, input, [solution EXCEPT ![i] = 0],
                        [diff EXCEPT ![i] = Exact])
         ELSE ExactPass(i + 1, input, solution, diff)

\* solution.iter().position(|&x| x == b) (game.rs:175): 0 when there is none
Position(solution, b) ==
    IF \E j \in 1..Len(solution) : solution[j] = b
    THEN CHOOSE j \in 1..Len(solution) :
            /\ solution[j] = b
            /\ \A k \in 1..(j - 1) : solution[k] # b
    ELSE 0

\* an amber match that does not consume the letter it found
RECURSIVE ClosePass_NoConsume(_, _, _, _)
ClosePass_NoConsume(i, input, solution, diff) ==
    IF i > Len(input) THEN <<solution, diff>>
    ELSE IF diff[i] # Wrong
         THEN ClosePass_NoConsume(i + 1, input, solution, diff)
         ELSE IF Position(solution, input[i]) # 0
              THEN ClosePass_NoConsume(i + 1, input, solution,
                                       [diff EXCEPT ![i] = Close])
              ELSE ClosePass_NoConsume(i + 1, input, solution, diff)

\* the amber match written at the index found in the solution
RECURSIVE ClosePass_MarksFound(_, _, _, _)
ClosePass_MarksFound(i, input, solution, diff) ==
    IF i > Len(input) THEN <<solution, diff>>
    ELSE IF diff[i] # Wrong
         THEN ClosePass_MarksFound(i + 1, input, solution, diff)
         ELSE LET j == Position(solution, input[i])
              IN IF j # 0
                 THEN ClosePass_MarksFound(i + 1, input, [solution EXCEPT ![j] = 0],
                                           [diff EXCEPT ![j] = Close])
                 ELSE ClosePass_MarksFound(i + 1, input, solution, diff)

\* the second loop run from the last index to the first
RECURSIVE ClosePass_RightToLeft(_, _, _, _)
ClosePass_RightToLeft(i, input, solution, diff) ==
    IF i > Len(input) THEN <<solution, diff>>
    ELSE LET k == Len(input) + 1 - i
         IN IF diff[k] # Wrong
            THEN ClosePass_RightToLeft(i + 1, input, solution, diff)
            ELSE LET j == Position(solution, input[k])
                 IN IF j # 0
                    THEN ClosePass_RightToLeft(i + 1, input,
                                               [solution EXCEPT ![j] = 0],
                                               [diff EXCEPT ![k] = Close])
                    ELSE ClosePass_RightToLeft(i + 1, input, solution, diff)

\* second loop (game.rs:171-179)
RECURSIVE ClosePass(_, _, _, _)
ClosePass(i, input, solution, diff) ==
    IF i > Len(input) THEN <<solution, diff>>
    ELSE IF diff[i] # Wrong
         THEN ClosePass(i + 1, input, solution, diff)
         ELSE LET j == Position(solution, input[i])
              IN IF j # 0
                 THEN ClosePass(i + 1, input, [solution EXCEPT ![j] = 0],
                                [diff EXCEPT ![i] = Close])
                 ELSE ClosePass(i + 1, input, solution, diff)

RevealKey == "31abhtykwu"

\* the key handed out when no letter is Wrong
check_guess_KeyIfNoWrong(input, solution) ==
    LET diff0 == [i \in 1..Len(input) |-> Wrong]
        p1 == ExactPass(1, input, solution, diff0)
        p2 == ClosePass(1, input, p1[1], p1[2])
        diff == p2[2]
    IN [hash |-> input,
        guess |-> diff,
        key |-> IF \A i \in 1..Len(diff) : diff[i] # Wrong
                THEN Some(RevealKey) ELSE None]

check_guess(input, solution) ==
    LET diff0 == [i \in 1..Len(input) |-> Wrong]
        p1 == ExactPass(1, input, solution, diff0)
        p2 == ClosePass(1, input, p1[1], p1[2])
        diff == p2[2]
    IN [hash |-> input,
        guess |-> diff,
        key |-> IF \A i \in 1..Len(diff) : diff[i] = Exact
                THEN Some(RevealKey) ELSE None]

(***************************************************************************)
(* The Redis store: per identifier the three keys game:<id>:guess_count,   *)
(* game:<id>:salt and game:<id>:password.  A key is [v, ex]: v its value   *)
(* (None when the key does not exist), ex whether it carries an expiry.    *)
(***************************************************************************)
Fields == {"guess_count", "salt", "password"}
NoKey == [v |-> None, ex |-> FALSE]
Exists(d, id, f) == IsSome(d[id][f].v)

\* SETEX key value GAME_EXPIRE (game.rs:81-83)
RedisSetEx(d, id, f, val) == [d EXCEPT ![id][f] = [v |-> Some(val), ex |-> TRUE]]
\* GET key
RedisGet(d, id, f) == d[id][f].v
\* INCR replaced by a command that adds nothing (a read)
IncrBy_Lost(old) == old
\* the increment of .incr(key, 1) (game.rs:109)
IncrBy(old) == old + 1
\* INCR key: a missing key counts as 0 and is created WITHOUT an expiry; an
\* existing key keeps its expiry
RedisIncr(d, id, f) ==
    IF Exists(d, id, f)
    THEN [d EXCEPT ![id][f].v = Some(IncrBy(Unwrap(@)))]
    ELSE [d EXCEPT ![id][f] = [v |-> Some(IncrBy(0)), ex |-> FALSE]]
\* DEL of a key name that lacks the identifier: the field of every session
RedisDel_AllIds(d, id, f) == [i \in DOMAIN d |-> [d[i] EXCEPT ![f] = NoKey]]
\* DEL key
RedisDel(d, id, f) == [d EXCEPT ![id][f] = NoKey]

VARIABLES
    db,        \* the Redis store
    proc,      \* per request slot: the handler's position and locals
    resp,      \* per request slot: the response of its last request
    created,   \* identifiers create_game has drawn so far
    born,      \* per id: the SETEX of guess_count has run
    nIncr,     \* per id: INCR commands run on guess_count since its SETEX
    ord,       \* per slot: nIncr of the session when the slot read or
               \* incremented the counter, NoOrd before that and when the
               \* SETEX of the counter had not run yet
    maxSeen,   \* per id: largest guess_count a get_status has returned or a
               \* scored guess has counted since the SETEX of the counter
    seenAtStart, \* per slot in flight: maxSeen of its session when it began
    sawAbsent, \* per slot in flight: some field was missing when its INCR ran
    expired,   \* per id: a key of the session has run out
    left,      \* INCR commands the run may still issue
    drawn,     \* per id: the salt create_game drew for it, None before
    eval       \* a guess digest and a password digest to score, and the
               \* result once scored (runs that only score a guess)

vars == <<db, proc, resp, created, born, nIncr, ord, maxSeen, seenAtStart,
          sawAbsent, expired, left, drawn, eval>>
hist == <<created, born, nIncr, ord, expired, left, drawn, eval>>

\* the session identifiers in play: those the store is modelled for
Ids == DOMAIN db
seen == <<maxSeen, seenAtStart, sawAbsent>>

NoOrd == 0 - 1

Idle == [pc |-> "idle", op |-> "none", id |-> 0, guess |-> "",
         guess_count |-> None, salt |-> None, password |-> None]

\* AppError (error.rs:6-10) and the three Ok payloads
GameNotFound == "GameNotFound"
InternalServerError == "InternalServerError"
BadRequest == "BadRequest"

NoResp == [tag |-> "none", salt |-> None, guess_count |-> None, result |-> None]
Err(e) == [NoResp EXCEPT !.tag = e]
\* GameInfo (game.rs:18-21)
GameInfo(salt, guess_count) ==
    [tag |-> "GameInfo", salt |-> Some(salt), guess_count |-> Some(guess_count),
     result |-> None]
\* GameCreationInfo (game.rs:24-28); the id is proc[p].id
GameCreationInfo(salt) ==
    [tag |-> "GameCreationInfo", salt |-> Some(salt), guess_count |-> Some(0),
     result |-> None]
\* GuessResult (game.rs:49-53)
GuessResult(r) ==
    [tag |-> "GuessResult", salt |-> None, guess_count |-> None, result |-> Some(r)]

\* AppError::into_response (error.rs:12-21)
StatusCode(tag) ==
    CASE tag = GameNotFound -> 404
      [] tag = InternalServerError -> 500
      [] tag = BadRequest -> 400
      [] OTHER -> 200

\* nothing to score
NoEval == [hash |-> << >>, password |-> << >>, result |-> NoResp]

\* the store before any request, for the identifiers I
EmptyStore(I) == [i \in I |-> [f \in Fields |-> NoKey]]
\* the keys of a session create_game (game.rs:80-86) wrote and n guesses
\* have incremented since
Session(n, salt, password) ==
    [f \in Fields |->
        [v |-> Some(CASE f = "guess_count" -> n
                      [] f = "salt" -> salt
                      [] f = "password" -> Md5Base64(password, salt)),
         ex |-> TRUE]]

\* a run that starts with nothing in the store, requests one after the other
InitSeq ==
    /\ db = EmptyStore(OneId)
    /\ proc = [p \in Procs |-> Idle]
    /\ resp = [p \in Procs |-> NoResp]
    /\ created = {}
    /\ born = [i \in Ids |-> FALSE]
    /\ nIncr = [i \in Ids |-> 0]
    /\ ord = [p \in Procs |-> NoOrd]
    /\ maxSeen = [i \in Ids |-> 0]
    /\ seenAtStart = [p \in Procs |-> 0]
    /\ sawAbsent = [p \in Procs |-> FALSE]
    /\ expired = [i \in Ids |-> FALSE]
    /\ left = MAX_GUESS + ExtraIncr
    /\ drawn = [i \in Ids |-> None]
    /\ eval = NoEval

\* the handlers start on a store that, for each of the identifiers I, is
\* empty or holds a session created before, i's with a salt of S[i], and
\* guessed at some number of times below the ceiling; the run may issue
\* budget INCR commands
InitOn(I, S, budget) ==
    /\ \E old \in SUBSET I :
        /\ created = old
        /\ born = [i \in I |-> i \in old]
        /\ \E n \in [I -> (MAX_GUESS - Headroom)..MAX_GUESS],
              salt \in [I -> UNION {S[i] : i \in I}],
              password \in [I -> Passwords] :
            /\ \A i \in I : salt[i] \in S[i]
            /\ db = [i \in I |-> IF i \in old
                                 THEN Session(n[i], salt[i], password[i])
                                 ELSE [f \in Fields |-> NoKey]]
            /\ nIncr = [i \in I |-> IF i \in old THEN n[i] ELSE 0]
            /\ maxSeen = [i \in I |-> IF i \in old THEN n[i] ELSE 0]
            /\ drawn = [i \in I |-> IF i \in old THEN Some(salt[i]) ELSE None]
    /\ proc = [p \in Procs |-> Idle]
    /\ resp = [p \in Procs |-> NoResp]
    /\ ord = [p \in Procs |-> NoOrd]
    /\ sawAbsent = [p \in Procs |-> FALSE]
    /\ seenAtStart = [p \in Procs |-> 0]
    /\ expired = [i \in I |-> FALSE]
    /\ left = budget
    /\ eval = NoEval

\* one identifier in play
Init == InitOn(OneId, <<Salts>>, MaxIncr)

AllPresent(d, id) == \A f \in Fields : Exists(d, id, f)
AllGone(d, id) == \A f \in Fields : ~Exists(d, id, f)
Max(a, b) == IF a >= b THEN a ELSE b

\* the guess_count a response shows or rests on: that of a GameInfo, and the
\* counter a scored guess was counted as
Counted(p, r) ==
    IF r.tag = "GameInfo" THEN Unwrap(r.guess_count)
    ELSE IF r.tag = "GuessResult" THEN Unwrap(proc[p].guess_count)
    ELSE 0

\* a request ends with the response r: the slot keeps op, id and guess of the
\* request until its next request
Return(p, r) ==
    /\ resp' = [resp EXCEPT ![p] = r]
    /\ proc' = [proc EXCEPT ![p] = [Idle EXCEPT !.op = proc[p].op, !.id = proc[p].id,
                                                !.guess = proc[p].guess]]
    /\ maxSeen' = [maxSeen EXCEPT ![proc[p].id] = Max(@, Counted(p, r))]
    /\ seenAtStart' = [seenAtStart EXCEPT ![p] = 0]
    /\ sawAbsent' = [sawAbsent EXCEPT ![p] = FALSE]
\* a request starts in slot p with the locals rec; pc = "idle" in rec when the
\* handler returns r at once
Enter(p, rec, r) ==
    /\ proc[p].pc = "idle"
    /\ proc' = [proc EXCEPT ![p] = rec]
    /\ resp' = [resp EXCEPT ![p] = r]
    /\ ord' = [ord EXCEPT ![p] = NoOrd]
    /\ sawAbsent' = [sawAbsent EXCEPT ![p] = FALSE]
    /\ seenAtStart' = [seenAtStart EXCEPT ![p] =
                          IF rec.pc = "idle" THEN 0 ELSE maxSeen[rec.id]]
\* the handler moves on to its next command
Goto(p, pc) == [proc EXCEPT ![p].pc = pc]

(***************************************************************************)
(* create_game (game.rs:55-93)                                             *)
(***************************************************************************)
\* game.rs:56-78: draw salt, password and uuid, hash, connect
create_game(p) ==
    \E id \in Ids \ created, salt \in Salts, password \in Passwords :
        /\ Enter(p, [Idle EXCEPT !.pc = "create_set_guess_count", !.op = "create",
                                 !.id = id, !.salt = Some(salt),
                                 !.password = Some(Md5Base64(password, salt))],
                 NoResp)
        /\ created' = created \cup {id}
        /\ drawn' = [drawn EXCEPT ![id] = Some(salt)]
        /\ UNCHANGED <<db, born, nIncr, maxSeen, expired, left, eval>>

\* game.rs:81
create_game_set_guess_count(p) ==
    /\ proc[p].pc = "create_set_guess_count"
    /\ db' = RedisSetEx(db, proc[p].id, "guess_count", 0)
    /\ proc' = Goto(p, "create_set_salt")
    /\ born' = [born EXCEPT ![proc[p].id] = TRUE]
    /\ nIncr' = [nIncr EXCEPT ![proc[p].id] = 0]
    /\ maxSeen' = [maxSeen EXCEPT ![proc[p].id] = 0]
    /\ UNCHANGED <<resp, created, ord, seenAtStart, sawAbsent, expired, left, drawn, eval>>

\* game.rs:82
create_game_set_salt(p) ==
    /\ proc[p].pc = "create_set_salt"
    /\ db' = RedisSetEx(db, proc[p].id, "salt", Unwrap(proc[p].salt))
    /\ proc' = Goto(p, "create_set_password")
    /\ UNCHANGED <<resp, hist, seen>>

\* game.rs:83-92
create_game_set_password(p) ==
    /\ proc[p].pc = "create_set_password"
    /\ db' = RedisSetEx(db, proc[p].id, "password", Unwrap(proc[p].password))
    /\ Return(p, GameCreationInfo(Unwrap(proc[p].salt)))
    /\ UNCHANGED hist

(***************************************************************************)
(* get_game_info (game.rs:30-46)                                           *)
(***************************************************************************)
\* game.rs:31-34
get_game_info(p) ==
    \E id \in Ids :
        /\ Enter(p, [Idle EXCEPT !.pc = "info_get_guess_count", !.op = "info",
                                 !.id = id], NoResp)
        /\ UNCHANGED <<db, created, born, nIncr, maxSeen, expired, left, drawn, eval>>

\* the counter read with INCR, as make_guess does, instead of GET
get_game_info_get_guess_count_Incr(p) ==
    /\ proc[p].pc = "info_get_guess_count"
    /\ db' = RedisIncr(db, proc[p].id, "guess_count")
    /\ proc' = [proc EXCEPT ![p].pc = "info_get_salt",
                            ![p].guess_count = RedisGet(db', proc[p].id, "guess_count")]
    /\ ord' = [ord EXCEPT ![p] = IF born[proc[p].id] THEN nIncr[proc[p].id] ELSE NoOrd]
    /\ UNCHANGED <<resp, created, born, nIncr, seen, expired, left, drawn, eval>>

\* game.rs:36
get_game_info_get_guess_count(p) ==
    /\ proc[p].pc = "info_get_guess_count"
    /\ proc' = [proc EXCEPT ![p].pc = "info_get_salt",
                            ![p].guess_count = RedisGet(db, proc[p].id, "guess_count")]
    /\ ord' = [ord EXCEPT ![p] = IF born[proc[p].id] THEN nIncr[proc[p].id] ELSE NoOrd]
    /\ UNCHANGED <<db, resp, created, born, nIncr, seen, expired, left, drawn, eval>>

\* a missing counter read as 0 instead of ending in not-found
InfoReply_DefaultCount(guess_count, salt) ==
    IF IsSome(salt)
    THEN GameInfo(Unwrap(salt), IF IsSome(guess_count) THEN Unwrap(guess_count) ELSE 0)
    ELSE Err(GameNotFound)

\* the if let of game.rs:41-45
InfoReply(guess_count, salt) ==
    IF IsSome(guess_count) /\ IsSome(salt)
    THEN GameInfo(Unwrap(salt), Unwrap(guess_count))
    ELSE Err(GameNotFound)

\* game.rs:37-45
get_game_info_get_salt(p) ==
    /\ proc[p].pc = "info_get_salt"
    /\ LET salt == RedisGet(db, proc[p].id, "salt")
       IN Return(p, InfoReply(proc[p].guess_count, salt))
    /\ UNCHANGED <<db, hist>>

(***************************************************************************)
(* make_guess (game.rs:95-138)                                             *)
(***************************************************************************)
\* the length check left out
BadLength_Skipped(guess) == FALSE

\* game.rs:100
BadLength(guess) == Len(guess) # PASSWORD_LENGTH

\* game.rs:100-106
make_guess(p) ==
    \E id \in Ids, guess \in Guesses :
        IF BadLength(guess)
        THEN /\ Enter(p, [Idle EXCEPT !.op = "guess", !.id = id, !.guess = guess],
                      Err(BadRequest))
             /\ UNCHANGED <<db, created, born, nIncr, maxSeen, expired, left, drawn, eval>>
        ELSE /\ left > 0
             /\ left' = left - 1
             /\ Enter(p, [Idle EXCEPT !.pc = "guess_incr", !.op = "guess",
                                      !.id = id, !.guess = guess], NoResp)
             /\ UNCHANGED <<db, created, born, nIncr, maxSeen, expired, drawn, eval>>

\* game.rs:109
make_guess_incr(p) ==
    /\ proc[p].pc = "guess_incr"
    /\ LET id == proc[p].id
           d == RedisIncr(db, id, "guess_count")
           n == Unwrap(RedisGet(d, id, "guess_count"))
       IN /\ db' = d
          /\ proc' = [proc EXCEPT ![p].pc = "guess_get_salt",
                                  ![p].guess_count = Some(n)]
          /\ nIncr' = [nIncr EXCEPT ![id] = @ + 1]
          /\ ord' = [ord EXCEPT ![p] = IF born[id] THEN nIncr[id] + 1 ELSE NoOrd]
          /\ sawAbsent' = [sawAbsent EXCEPT ![p] = ~AllPresent(db, id)]
    /\ UNCHANGED <<resp, created, born, maxSeen, seenAtStart, expired, left, drawn, eval>>

\* the salt read under the key of the password
make_guess_get_salt_WrongKey(p) ==
    /\ proc[p].pc = "guess_get_salt"
    /\ proc' = [proc EXCEPT ![p].pc = "guess_get_password",
                            ![p].salt = RedisGet(db, proc[p].id, "password")]
    /\ UNCHANGED <<db, resp, hist, seen>>

\* game.rs:110
make_guess_get_salt(p) ==
    /\ proc[p].pc = "guess_get_salt"
    /\ proc' = [proc EXCEPT ![p].pc = "guess_get_password",
                            ![p].salt = RedisGet(db, proc[p].id, "salt")]
    /\ UNCHANGED <<db, resp, hist, seen>>

\* game.rs:130-133: the guess digest against the stored password digest
Score(hash, password) ==
    IF Len(hash) # Len(password)
    THEN Err(BadRequest)
    ELSE GuessResult(check_guess(hash, password))

\* the ceiling compared with >= instead of >
GuessReply_OffByOne(guess, guess_count, salt, password) ==
    IF IsSome(guess_count) /\ IsSome(salt) /\ IsSome(password)
    THEN IF Unwrap(guess_count) >= MAX_GUESS
         THEN Err("delete")
         ELSE GuessResult(check_guess(Md5Base64(guess, Unwrap(salt)), Unwrap(password)))
    ELSE Err(GameNotFound)

\* game.rs:115-137 for a pipeline that answered: "delete" stands for going on
\* to the DEL pipeline
GuessReply(guess, guess_count, salt, password) ==
    IF IsSome(guess_count) /\ IsSome(salt) /\ IsSome(password)
    THEN IF Unwrap(guess_count) > MAX_GUESS
         THEN Err("delete")
         ELSE Score(Md5Base64(guess, Unwrap(salt)), Unwrap(password))
    ELSE Err(GameNotFound)

\* game.rs:111-137
make_guess_get_password(p) ==
    /\ proc[p].pc = "guess_get_password"
    /\ LET id == proc[p].id
           password == RedisGet(db, id, "password")
           r == GuessReply(proc[p].guess, proc[p].guess_count, proc[p].salt, password)
       IN IF r.tag = "delete"
          THEN /\ proc' = [proc EXCEPT ![p].pc = "guess_del_guess_count",
                                       ![p].password = password]
               /\ UNCHANGED <<resp, seen>>
          ELSE Return(p, r)
    /\ UNCHANGED <<db, hist>>

\* game.rs:118
make_guess_del_guess_count(p) ==
    /\ proc[p].pc = "guess_del_guess_count"
    /\ db' = RedisDel(db, proc[p].id, "guess_count")
    /\ proc' = Goto(p, "guess_del_salt")
    /\ UNCHANGED <<resp, hist, seen>>

\* game.rs:119
make_guess_del_salt(p) ==
    /\ proc[p].pc = "guess_del_salt"
    /\ db' = RedisDel(db, proc[p].id, "salt")
    /\ proc' = Goto(p, "guess_del_password")
    /\ UNCHANGED <<resp, hist, seen>>

\* game.rs:120-124
make_guess_del_password(p) ==
    /\ proc[p].pc = "guess_del_password"
    /\ db' = RedisDel(db, proc[p].id, "password")
    /\ Return(p, Err(GameNotFound))
    /\ UNCHANGED hist

(***************************************************************************)
(* Failures of the store: .map_err(|_| AppError::InternalServerError)      *)
(***************************************************************************)
\* a store failure answered as not-found
MapErr_NotFound == Err(GameNotFound)

\* .map_err(|_| AppError::InternalServerError) (game.rs:34, 40, 78, 86, 106,
\* 114, 123)
MapErr == Err(InternalServerError)

\* get_async_connection fails (game.rs:31-34, 75-78, 103-106): the request
\* ends before any command is sent
connect_err(p) ==
    /\ \/ \E id \in Ids \ created :
            /\ Enter(p, [Idle EXCEPT !.op = "create", !.id = id],
                     MapErr)
            /\ created' = created \cup {id}
       \/ \E id \in Ids :
            /\ Enter(p, [Idle EXCEPT !.op = "info", !.id = id],
                     MapErr)
            /\ UNCHANGED created
       \/ \E id \in Ids, guess \in Guesses :
            /\ ~BadLength(guess)
            /\ Enter(p, [Idle EXCEPT !.op = "guess", !.id = id, !.guess = guess],
                     MapErr)
            /\ UNCHANGED created
    /\ UNCHANGED <<db, born, nIncr, maxSeen, expired, left, drawn, eval>>

\* the last command of each pipeline and what it does to the store
LastCommand(p) ==
    LET id == proc[p].id
    IN CASE proc[p].pc = "create_set_password" ->
                RedisSetEx(db, id, "password", Unwrap(proc[p].password))
         [] proc[p].pc = "guess_del_password" -> RedisDel(db, id, "password")
         [] OTHER -> db

\* query_async fails (game.rs:38-40, 84-86, 112-114, 121-123): the connection
\* breaks when the server has run the commands of the pipeline up to the
\* handler's position, or (lost reply) after it has run the last one too
query_async_err(p) ==
    /\ proc[p].pc # "idle"
    /\ \/ UNCHANGED db
       \/ /\ proc[p].pc \in {"create_set_password", "guess_del_password"}
          /\ db' = LastCommand(p)
    /\ Return(p, MapErr)
    /\ UNCHANGED hist

(***************************************************************************)
(* Expiry (GAME_EXPIRE, game.rs:15, 81-83).  All keys get the same         *)
(* time-to-live, so keys with an expiry run out in the order they were     *)
(* set: guess_count, then salt, then password; several may run out at the  *)
(* same instant.                                                           *)
(***************************************************************************)
Rank(f) == CASE f = "guess_count" -> 1 [] f = "salt" -> 2 [] f = "password" -> 3

Expire(id) ==
    \E f \in Fields :
        /\ Exists(db, id, f)
        /\ db[id][f].ex
        /\ db' = [db EXCEPT ![id] =
                    [g \in Fields |-> IF Rank(g) <= Rank(f) /\ db[id][g].ex
                                      THEN NoKey ELSE db[id][g]]]
        /\ expired' = [expired EXCEPT ![id] = TRUE]
        /\ UNCHANGED <<proc, resp, created, born, nIncr, ord, seen, left, drawn, eval>>

(***************************************************************************)
(* Specifications                                                          *)
(***************************************************************************)
Begin(p) ==
    \/ create_game(p)
    \/ get_game_info(p)
    \/ make_guess(p)

Step(p) ==
    \/ create_game_set_guess_count(p)
    \/ create_game_set_salt(p)
    \/ create_game_set_password(p)
    \/ get_game_info_get_guess_count(p)
    \/ get_game_info_get_salt(p)
    \/ make_guess_incr(p)
    \/ make_guess_get_salt(p)
    \/ make_guess_get_password(p)
    \/ make_guess_del_guess_count(p)
    \/ make_guess_del_salt(p)
    \/ make_guess_del_password(p)

Next ==
    \/ \E p \in Procs : Begin(p)
    \/ \E p \in Procs : Step(p)
    \/ \E p \in Procs : connect_err(p)
    \/ \E p \in Procs : query_async_err(p)
    \/ \E id \in Ids : Expire(id)

\* every interleaving of requests, store failures and expiry
Spec == Init /\ [][Next]_vars

\* one client sending one request after the other; no store failure, no
\* expiry
NextSeq ==
    \/ Begin(1)
    \/ Step(1)

SpecSeq == InitSeq /\ [][NextSeq]_vars

\* two identifiers in play, sessions found in the store with salts of
\* different draws
InitPair == InitOn(TwoIds, OldSalts, PairIncr)

\* every interleaving of two requests; no store failure, no expiry
NextPair ==
    \/ \E p \in Procs : Begin(p)
    \/ \E p \in Procs : Step(p)

SpecPair == InitPair /\ [][NextPair]_vars

(***************************************************************************)
(* Scoring alone: game.rs:130-133 applied to a guess digest and a password *)
(* digest drawn freely.                                                    *)
(***************************************************************************)
\* bytes of the base64 alphabet the drawn digests are made of: A, B, C
Alphabet == {65, 66, 67}
Digests == UNION {[1..n -> Alphabet] : n \in 0..MaxLen}
\* the digests "ABCCD" and "ACCBX"
ABCCD == <<65, 66, 67, 67, 68>>
ACCBX == <<65, 67, 67, 66, 88>>

InitEval ==
    /\ \/ \E g \in Digests, w \in Digests :
            eval = [hash |-> g, password |-> w, result |-> NoResp]
       \/ eval = [hash |-> ACCBX, password |-> ABCCD, result |-> NoResp]
    /\ db = EmptyStore(OneId)
    /\ proc = [p \in Procs |-> Idle]
    /\ resp = [p \in Procs |-> NoResp]
    /\ created = {}
    /\ born = [i \in Ids |-> FALSE]
    /\ nIncr = [i \in Ids |-> 0]
    /\ ord = [p \in Procs |-> NoOrd]
    /\ maxSeen = [i \in Ids |-> 0]
    /\ seenAtStart = [p \in Procs |-> 0]
    /\ sawAbsent = [p \in Procs |-> FALSE]
    /\ expired = [i \in Ids |-> FALSE]
    /\ left = 0
    /\ drawn = [i \in Ids |-> None]

\* game.rs:130-133
make_guess_score ==
    /\ eval.result = NoResp
    /\ eval' = [eval EXCEPT !.result = Score(eval.hash, eval.password)]
    /\ UNCHANGED <<db, proc, resp, created, born, nIncr, ord, seen, expired,
                   left, drawn>>

NextEval == make_guess_score

SpecEval == InitEval /\ [][NextEval]_vars

(***************************************************************************)
(* Claims                                                                  *)
(***************************************************************************)
Done(p) == proc[p].pc = "idle"
AfterIncr(p) ==
    proc[p].pc \in {"guess_get_salt", "guess_get_password", "guess_del_guess_count",
                    "guess_del_salt", "guess_del_password"}
GoodLength(p) == Len(proc[p].guess) = 8

\* C1: once the counter of a session is above 64 no response shows it: no
\* get_status response carries a guess_count greater than 64.
C1_NoStatusAboveCeiling ==
    \A p \in Procs :
        resp[p].tag = "GameInfo" => Unwrap(resp[p].guess_count) <= 64

\* C2: in a run without expiry, a submit_guess whose increment was the 65th
\* or a later one on its session is never scored, so at most 64 are scored.
C2_NoScoreFromCeilingOn ==
    \A p \in Procs :
        (resp[p].tag = "GuessResult" /\ ~expired[proc[p].id]) => ord[p] <= 64

\* C3: in a sequential run on a freshly created session the guesses 1..64 of
\* the right length are scored, the 65th and every later one is answered
\* not-found, and so is every get_status from then on.
C3_SequentialCeiling ==
    \A p \in Procs :
        Done(p) =>
            /\ (proc[p].op = "guess" /\ GoodLength(p) /\ ord[p] \in 1..64)
                    => resp[p].tag = "GuessResult"
            /\ (proc[p].op = "guess" /\ GoodLength(p) /\ ord[p] > 64)
                    => resp[p].tag = "GameNotFound"
            /\ (proc[p].op = "info" /\ ord[p] > 64)
                    => resp[p].tag = "GameNotFound"

\* the 65th guess has deleted the session and a later status query was
\* answered not-found
C3_Witness ==
    \E p \in Procs :
        /\ Done(p) /\ proc[p].op = "info" /\ ord[p] = 65
        /\ resp[p].tag = "GameNotFound"
        /\ AllGone(db, proc[p].id)

\* C4: while no key of a session has expired and at most 64 increments have
\* run on it, the k-th increment observes the counter k (so concurrent guesses
\* observe distinct values 1..N), the stored counter is the number of
\* increments, and get_status returns that number.
C4_NoLostIncrement ==
    /\ \A i \in Ids :
        (born[i] /\ ~expired[i] /\ nIncr[i] <= 64)
            => db[i]["guess_count"].v = Some(nIncr[i])
    /\ \A p \in Procs :
        (AfterIncr(p) /\ ~expired[proc[p].id] /\ ord[p] \in 1..64)
            => proc[p].guess_count = Some(ord[p])
    /\ \A p \in Procs :
        (resp[p].tag = "GameInfo" /\ ~expired[proc[p].id] /\ ord[p] \in 0..64)
            => resp[p].guess_count = Some(ord[p])

\* two guesses in flight on one session created in this run hold the
\* counters 1 and 2
C4_Witness ==
    \E p, q \in Procs :
        /\ AfterIncr(p) /\ AfterIncr(q)
        /\ proc[p].id = proc[q].id
        /\ ~expired[proc[p].id]
        /\ proc[p].guess_count = Some(1) /\ ord[p] = 1
        /\ proc[q].guess_count = Some(2) /\ ord[q] = 2

\* C5: guess_count never decreases: the guess_count a get_status returns, and
\* the counter a submit_guess is scored with, is never smaller than one that a
\* get_status or a scored submit_guess answered before the request began had.
C5_NeverDecreases ==
    [][\A p \in Procs :
        /\ (proc[p].pc = "info_get_salt" /\ resp'[p].tag = "GameInfo")
            => Unwrap(resp'[p].guess_count) >= seenAtStart[p]
        /\ (proc[p].pc = "guess_get_password" /\ resp'[p].tag = "GuessResult")
            => Unwrap(proc[p].guess_count) >= seenAtStart[p]]_vars

\* C6: a submit_guess that found one of the three fields missing when its
\* round trip began is never scored.
C6_AbsentNeverScored ==
    [][\A p \in Procs :
        (proc[p].pc = "guess_get_password" /\ resp'[p].tag = "GuessResult")
            => ~sawAbsent[p]]_vars

C8_EveryKeyExpires ==
    \A i \in Ids : \A f \in Fields : Exists(db, i, f) => db[i][f].ex

\* C9: the deletion at the ceiling is all-or-nothing: in a run without
\* expiry, whenever other requests can run while it is under way the session
\* has all three keys or none.
C9_DeleteAllOrNothing ==
    \A p \in Procs :
        (proc[p].pc \in {"guess_del_salt", "guess_del_password"}
            /\ ~expired[proc[p].id])
            => (AllPresent(db, proc[p].id) \/ AllGone(db, proc[p].id))

\* C10: a submit_guess whose guess text is not 8 long returns bad-request at
\* once and leaves the store as it was, whatever the state of the session.
C10_BadLengthRejected ==
    [][\A p \in Procs :
        (/\ proc[p].pc = "idle"
         /\ <<proc'[p], resp'[p]>> # <<proc[p], resp[p]>>
         /\ proc'[p].op = "guess"
         /\ Len(proc'[p].guess) # 8)
            => /\ resp'[p].tag = "BadRequest"
               /\ proc'[p].pc = "idle"
               /\ db' = db]_vars

\* a guess of the wrong length was answered bad-request on a session the
\* ceiling has deleted
C10_Witness ==
    \E p \in Procs :
        /\ Done(p) /\ proc[p].op = "guess" /\ Len(proc[p].guess) # 8
        /\ resp[p].tag = "BadRequest"
        /\ nIncr[proc[p].id] > 64
        /\ ~expired[proc[p].id]
        /\ AllGone(db, proc[p].id)

\* the last position of each pipeline
Final == {"create_set_password", "info_get_salt", "guess_get_password",
          "guess_del_password"}
\* slot p takes the step
Acts(p) == <<proc'[p], resp'[p]>> # <<proc[p], resp[p]>>
\* the request of slot p ends in the step
Ends(p) == Acts(p) /\ proc'[p].pc = "idle"

\* C11: a request that ends before its pipeline has run to the end (the
\* connection or a command failed) is answered Infrastructure, HTTP 500;
\* not-found is answered only when the store answered and a field read was
\* missing, or the ceiling was exceeded and the deletion ran; bad-request
\* only for a guess text of the wrong length.
C11_FailureIsInfrastructure ==
    [][\A p \in Procs :
        Ends(p) =>
            /\ (/\ proc[p].pc \notin Final
                /\ ~(proc[p].pc = "idle" /\ proc'[p].op = "guess"
                        /\ Len(proc'[p].guess) # PASSWORD_LENGTH))
                => /\ resp'[p].tag = InternalServerError
                   /\ StatusCode(resp'[p].tag) = 500
            /\ resp'[p].tag = GameNotFound
                => /\ StatusCode(resp'[p].tag) = 404
                   /\ \/ /\ proc[p].pc = "info_get_salt"
                         /\ \/ ~IsSome(proc[p].guess_count)
                            \/ ~Exists(db, proc[p].id, "salt")
                      \/ /\ proc[p].pc = "guess_get_password"
                         /\ \/ ~IsSome(proc[p].salt)
                            \/ ~Exists(db, proc[p].id, "password")
                      \/ /\ proc[p].pc = "guess_del_password"
                         /\ Unwrap(proc[p].guess_count) > MAX_GUESS
                         /\ ~Exists(db', proc[p].id, "password")
            /\ resp'[p].tag = BadRequest
                => /\ StatusCode(resp'[p].tag) = 400
                   /\ proc[p].pc = "idle"
                   /\ Len(proc'[p].guess) # PASSWORD_LENGTH]_vars

\* the DEL pipeline of a guess above the ceiling broke after its first
\* command: the request was answered Infrastructure
C11_Witness ==
    \E p \in Procs :
        /\ Done(p) /\ proc[p].op = "guess"
        /\ resp[p].tag = InternalServerError
        /\ StatusCode(resp[p].tag) = 500
        /\ nIncr[proc[p].id] > MAX_GUESS /\ ~expired[proc[p].id]
        /\ ~Exists(db, proc[p].id, "guess_count")
        /\ Exists(db, proc[p].id, "salt")

\* the store holds what the create_game of slot p answered, with expiry
C12_StoredAsReturned ==
    \A p \in Procs :
        (/\ Done(p) /\ proc[p].op = "create"
         /\ resp[p].tag = "GameCreationInfo"
         /\ nIncr[proc[p].id] = 0 /\ ~expired[proc[p].id])
            => /\ resp[p].guess_count = Some(0)
               /\ db[proc[p].id]["guess_count"] = [v |-> Some(0), ex |-> TRUE]
               /\ db[proc[p].id]["salt"] = [v |-> resp[p].salt, ex |-> TRUE]
               /\ Exists(db, proc[p].id, "password")
               /\ db[proc[p].id]["password"].ex

\* a get_status that read the counter of a session before any guess and
\* expiry answers {salt, 0} with the salt create_game drew
C12_StatusAfterCreate ==
    \A p \in Procs :
        (resp[p].tag = "GameInfo" /\ ord[p] = 0 /\ ~expired[proc[p].id])
            => /\ resp[p].guess_count = Some(0)
               /\ resp[p].salt = drawn[proc[p].id]

\* no request has read one field of a new session and finds the next one
\* not written yet
C12_NoPartialSession ==
    \A q \in Procs :
        (/\ proc[q].pc \in {"info_get_salt", "guess_get_password"}
         /\ ~expired[proc[q].id] /\ nIncr[proc[q].id] <= MAX_GUESS)
            => /\ (proc[q].pc = "info_get_salt" /\ ord[q] = 0)
                    => Exists(db, proc[q].id, "salt")
               /\ (proc[q].pc = "guess_get_password" /\ ord[q] \in 1..MAX_GUESS)
                    => IsSome(proc[q].salt)

\* C12: after create_session has returned {id, salt, guess_count = 0} the
\* store holds guess_count 0, that salt and a digest, each with expiry; a
\* get_status before any guess or expiry returns {salt, 0}; and no concurrent
\* request observes the new session with only some of its fields written.
C12_CreateIsAtomic ==
    /\ C12_StoredAsReturned
    /\ C12_StatusAfterCreate
    /\ C12_NoPartialSession

\* C13: salt and password digest of a session are immutable: a step of a
\* get_status or a submit_guess changes no stored salt or digest of any
\* identifier, except that the deletion above the ceiling removes those of
\* its own session; a stored salt is the one create_session drew, a stored
\* digest one made with it; every get_status answers that salt and every
\* scored guess is hashed with it.
C13_SaltAndDigestImmutable ==
    [][\A p \in Procs :
        (Acts(p) /\ proc'[p].op \in {"info", "guess"}) =>
            /\ \A i \in Ids : \A f \in {"salt", "password"} :
                    db'[i][f] # db[i][f]
                        => /\ i = proc[p].id
                           /\ proc[p].pc \in {"guess_del_salt", "guess_del_password"}
                           /\ Unwrap(proc[p].guess_count) > MAX_GUESS
                           /\ db'[i][f] = NoKey
            /\ \A i \in Ids :
                    /\ Exists(db, i, "salt") => db[i]["salt"].v = drawn[i]
                    /\ Exists(db, i, "password")
                        => \E w \in Passwords :
                              db[i]["password"].v = Some(Md5Base64(w, Unwrap(drawn[i])))
            /\ (Ends(p) /\ resp'[p].tag = "GameInfo")
                    => resp'[p].salt = drawn[proc[p].id]
            /\ (Ends(p) /\ resp'[p].tag = "GuessResult")
                    => Unwrap(resp'[p].result).hash
                          = Md5Base64(proc[p].guess, Unwrap(drawn[proc[p].id]))]_vars

\* a guess on the session with the second salt was scored while the other
\* session, with the first salt, is in the store
C13_Witness ==
    \E p \in Procs : \E i \in Ids :
        /\ Done(p) /\ resp[p].tag = "GuessResult" /\ proc[p].id # i
        /\ drawn[proc[p].id] = Some("b0Rk9TeW")
        /\ Unwrap(resp[p].result).hash = Md5Base64(proc[p].guess, "b0Rk9TeW")
        /\ AllPresent(db, i) /\ db[i]["salt"].v = Some("Qx7pLm2Z")

\* C14: no state leaks between sessions: every step of a request on the
\* identifier A (a get_status, a submit_guess, also one deleting A above the
\* ceiling, a create_session that drew A) leaves the three stored fields of
\* every other identifier B as they are.
C14_NoLeakBetweenSessions ==
    [][\A p \in Procs :
        Acts(p) => \A i \in Ids \ {proc'[p].id} : db'[i] = db[i]]_vars

\* a guess has deleted its session above the ceiling while the session
\* another request created in the run is in the store untouched
C14_Witness ==
    \E p, q \in Procs :
        /\ Done(p) /\ proc[p].op = "guess" /\ resp[p].tag = GameNotFound
        /\ nIncr[proc[p].id] = MAX_GUESS + 1 /\ AllGone(db, proc[p].id)
        /\ Done(q) /\ proc[q].op = "create" /\ resp[q].tag = "GameCreationInfo"
        /\ proc[q].id # proc[p].id
        /\ AllPresent(db, proc[q].id)
        /\ db[proc[q].id]["guess_count"].v = Some(0)

\* the pair scored, and its result
Scored == eval.result.tag = "GuessResult"
Out == Unwrap(eval.result.result)
\* the indices of the digest s that hold the character c
Holding(s, c) == {i \in 1..Len(s) : s[i] = c}
\* the indices of the guess digest classified Exact or Close
Matched == {i \in 1..Len(Out.guess) : Out.guess[i] \in {Exact, Close}}
\* the characters of the two digests
Chars == {eval.hash[i] : i \in 1..Len(eval.hash)}
            \cup {eval.password[i] : i \in 1..Len(eval.password)}
MinOf(a, b) == IF a <= b THEN a ELSE b

\* C15: for equal-length digests g and p, position i is Exact exactly where
\* g[i] = p[i], and for every character c the positions of g holding c that
\* are Exact or Close are no more than the occurrences of c in p.
C15_ExactAndOnceOnly ==
    Scored =>
        /\ Len(Out.guess) = Len(eval.hash)
        /\ \A i \in 1..Len(eval.hash) :
                Out.guess[i] = Exact <=> eval.hash[i] = eval.password[i]
        /\ \A c \in Chars :
                Cardinality(Holding(eval.hash, c) \cap Matched)
                    <= Cardinality(Holding(eval.password, c))

\* "AAB" against "BCA": the first A is Close, the second, with no A left, Wrong
C15_Witness ==
    /\ Scored
    /\ eval.hash = <<65, 65, 66>> /\ eval.password = <<66, 67, 65>>
    /\ Out.guess = <<Close, Wrong, Close>>

\* C16: the reveal token is there exactly on a win: p against p is all Exact
\* with the non-empty token, g # p has no token; the result of a scored
\* guess carries the key iff the guess digest equals the password digest,
\* and digests of different lengths are not scored at all.
C16_KeyIffEqual ==
    /\ eval.result.tag \in {"none", "GuessResult", BadRequest}
    /\ eval.result.tag = BadRequest => Len(eval.hash) # Len(eval.password)
    /\ Scored =>
        /\ Len(eval.hash) = Len(eval.password)
        /\ Out.hash = eval.hash
        /\ IsSome(Out.key) <=> eval.hash = eval.password
        /\ eval.hash = eval.password
            => /\ \A i \in 1..Len(Out.guess) : Out.guess[i] = Exact
               /\ Out.key = Some(RevealKey)
               /\ RevealKey # ""

\* "ABCA" against itself: all Exact, with the key
C16_Witness ==
    /\ Scored
    /\ eval.hash = <<65, 66, 67, 65>> /\ eval.password = eval.hash
    /\ Out.guess = <<Exact, Exact, Exact, Exact>>
    /\ Out.key = Some("31abhtykwu")

\* C17 as claimed: "ACCBX" against "ABCCD" gives the result of the
\* walk-through, [Exact, Wrong, Exact, Close, Wrong].
C17_WalkThroughResult ==
    (Scored /\ eval.hash = ACCBX /\ eval.password = ABCCD)
        => Out.guess = <<Exact, Wrong, Exact, Close, Wrong>>

\* C17 as amended: for "ACCBX" against "ABCCD" the exact pass leaves the
\* password characters B, C and D unconsumed, the C of the guess at index 1
\* is Close, and the final sequence is [Exact, Close, Exact, Close, Wrong].
C17_ExactPassLeavesBCD ==
    (Scored /\ eval.hash = ACCBX /\ eval.password = ABCCD)
        => /\ ExactPass(1, eval.hash, eval.password,
                        [i \in 1..5 |-> Wrong])[1] = <<0, 66, 0, 67, 68>>
           /\ Out.guess[2] = Close
           /\ Out.guess = <<Exact, Close, Exact, Close, Wrong>>

\* the example scored, its second classification Close
C17_Witness ==
    /\ Scored /\ eval.hash = ACCBX /\ eval.password = ABCCD
    /\ Out.guess[2] = Close

\* C18: "ACCBX" against "ABCCD" gives [Exact, Close, Exact, Close, Wrong].
C18_ExampleResult ==
    (eval.result # NoResp /\ eval.hash = ACCBX /\ eval.password = ABCCD)
        => /\ Scored
           /\ Out.guess = <<Exact, Close, Exact, Close, Wrong>>

\* the example scored: five classifications and no key
C18_Witness ==
    /\ Scored /\ eval.hash = ACCBX /\ eval.password = ABCCD
    /\ Len(Out.guess) = 5 /\ Out.key = None

\* C19: for every character c the positions of g holding c that are Exact or
\* Close are exactly min(occurrences of c in g, occurrences of c in p), and
\* among the positions of g holding c that are not Exact the Close ones are
\* the leftmost: none classified Wrong is followed by one classified Close.
C19_MinAndLeftmost ==
    Scored =>
        \A c \in Chars :
            /\ Cardinality(Holding(eval.hash, c) \cap Matched)
                    = MinOf(Cardinality(Holding(eval.hash, c)),
                            Cardinality(Holding(eval.password, c)))
            /\ \A i, k \in Holding(eval.hash, c) :
                    (i < k /\ Out.guess[i] = Wrong) => Out.guess[k] # Close

\* "ABAA" against "BACC": of the three A only the leftmost is Close
C19_Witness ==
    /\ Scored
    /\ eval.hash = <<65, 66, 65, 65>> /\ eval.password = <<66, 65, 67, 67>>
    /\ Out.guess = <<Close, Close, Wrong, Wrong>>

\* C20: get_status is read-only: no step of a get_status, whether it ends
\* with the status, not-found or Infrastructure, changes a stored value or
\* the expiry of a key of any session.
C20_StatusReadOnly ==
    [][\A p \in Procs :
        (Acts(p) /\ proc'[p].op = "info") => db' = db]_vars

\* one get_status answered the status, another Infrastructure, and the
\* session holds its three keys, with expiry, the counter at the number of
\* increments
C20_Witness ==
    \E p, q \in Procs :
        /\ Done(p) /\ proc[p].op = "info" /\ resp[p].tag = "GameInfo"
        /\ Done(q) /\ proc[q].op = "info" /\ resp[q].tag = InternalServerError
        /\ proc[q].id = proc[p].id
        /\ \A f \in Fields : Exists(db, proc[p].id, f) /\ db[proc[p].id][f].ex
        /\ db[proc[p].id]["guess_count"].v = Some(nIncr[proc[p].id])

====
